---- MODULE Spec2Model ----
(***************************************************************************)
(* Model of bin/user/vitalstats.py: the VitalStatsSvc data service.        *)
(*                                                                         *)
(* Strings that the code parses (the binding declarations) are sequences   *)
(* of one-character strings, so that split(','), strip() and lower() are   *)
(* computed as the code computes them.  A Python value that may be None is *)
(* a tuple: None is <<>> and the number v is <<v>>.                        *)
(***************************************************************************)
EXTENDS Integers, Sequences, FiniteSets, TLC

VARIABLES
    config_dict,    \* the constructor's argument: section name -> section
    phase,          \* "Unconfigured" | "Active" | "Stopped"
    loop_stats,     \* self.loop_stats
    archive_stats,  \* self.archive_stats
    bound,          \* the event types the service has called self.bind for
    pc,             \* "idle" | "augment" (inside augment_packet's for loop)
    event,          \* the record of the last event as it arrived, or NoEvent
    packet,         \* the record of the last event as it is now
    stats,          \* augment_packet's argument stats
    idx,            \* number of completed iterations of the for loop
    log,            \* the calls made while handling the last event
    raised          \* an exception left the handler of the last event

vars == <<config_dict, phase, loop_stats, archive_stats, bound,
          pc, event, packet, stats, idx, log, raised>>

svcVars == <<config_dict, phase, loop_stats, archive_stats, bound>>
evtVars == <<pc, event, packet, stats, idx, log, raised>>

----------------------------------------------------------------------------
(* Python values *)

None == <<>>
Num(v) == <<v>>

(* character strings *)
str_loop == <<"l","o","o","p">>
str_archive == <<"a","r","c","h","i","v","e">>

UpperCase == <<"A","B","C","D","E","F","G","H","I","J","K","L","M",
               "N","O","P","Q","R","S","T","U","V","W","X","Y","Z">>
LowerCase == <<"a","b","c","d","e","f","g","h","i","j","k","l","m",
               "n","o","p","q","r","s","t","u","v","w","x","y","z">>
Whitespace == {" ", "\t", "\n", "\r"}

SetMin(S) == CHOOSE x \in S : \A y \in S : x <= y
SetMax(S) == CHOOSE x \in S : \A y \in S : x >= y

LowerOf == [c \in {UpperCase[i] : i \in 1..Len(UpperCase)} |->
                LowerCase[CHOOSE i \in 1..Len(UpperCase) : UpperCase[i] = c]]

lowerChar(c) == IF c \in DOMAIN LowerOf THEN LowerOf[c] ELSE c

lower(s) == [i \in 1..Len(s) |-> lowerChar(s[i])]

\* mutant of strip: nothing is stripped
strip_nothing(s) == s

strip(s) ==
    LET keep == {i \in 1..Len(s) : s[i] \notin Whitespace}
    IN  IF keep = {} THEN <<>> ELSE SubSeq(s, SetMin(keep), SetMax(keep))

RECURSIVE split(_, _)
split(s, sep) ==
    LET at == {i \in 1..Len(s) : s[i] = sep}
    IN  IF at = {} THEN <<s>>
        ELSE <<SubSeq(s, 1, SetMin(at) - 1)>>
                 \o split(SubSeq(s, SetMin(at) + 1, Len(s)), sep)

InList(x, lst) == \E i \in 1..Len(lst) : lst[i] = x

----------------------------------------------------------------------------
(* The registry and the unit layer *)

\* mutant of DEF_BINDINGS: the default is 'loop'
DEF_BINDINGS_loop == <<str_loop>>

DEF_BINDINGS == <<str_archive>>

\* VitalStatsSvc.STATS, in the order the dict literal lists its keys
STATS == <<
    [name |-> "cpu_load",   output_unit |-> "count",    output_group |-> "group_count"],
    [name |-> "cpu_idle",   output_unit |-> "percent",  output_group |-> "group_percent"],
    [name |-> "cpu_temp",   output_unit |-> "degree_C", output_group |-> "group_temperature"],
    [name |-> "mem_avail",  output_unit |-> "byte",     output_group |-> "group_data"],
    [name |-> "disk_avail", output_unit |-> "byte",     output_group |-> "group_data"] >>

StatNames == {STATS[i].name : i \in 1..Len(STATS)}
StatsKeys == [i \in 1..Len(STATS) |-> STATS[i].name]
Algorithm(obs_type) == STATS[CHOOSE i \in 1..Len(STATS) : STATS[i].name = obs_type]

\* weewx unit systems
US == 1
METRIC == 16
UnitSystems == {US, METRIC}

\* the unit a unit system uses for a unit group (weewx.units.StdUnitConverters)
StdUnit(usUnits, group) ==
    CASE group = "group_temperature" ->
            IF usUnits = US THEN "degree_F" ELSE "degree_C"
      [] group = "group_count"   -> "count"
      [] group = "group_percent" -> "percent"
      [] group = "group_data"    -> "byte"

CtoF(x) == (x * 9) \div 5 + 32

\* weewx.units.convertStd on the ValueTuple (val, unit, group): same unit is
\* returned as is, None converts to None, degree_C to degree_F by CtoF
convertStd(vt, usUnits) ==
    LET target == StdUnit(usUnits, vt.group)
    IN  IF vt.unit = target THEN vt
        ELSE [val   |-> IF vt.val = None THEN None ELSE Num(CtoF(vt.val[1])),
              unit  |-> target,
              group |-> vt.group]

\* what a get_stat() call can do: raise, or return a reading or None
Reading(obs_type) ==
    CASE obs_type = "cpu_load"   -> 2
      [] obs_type = "cpu_idle"   -> 90
      [] obs_type = "cpu_temp"   -> 45
      [] obs_type = "mem_avail"  -> 4000
      [] obs_type = "disk_avail" -> 7000

get_stat(obs_type) ==
    { [raises |-> TRUE,  val |-> None],
      [raises |-> FALSE, val |-> None],
      [raises |-> FALSE, val |-> Num(Reading(obs_type))] }

----------------------------------------------------------------------------
(* Configurations.  The host parses the configuration file into strings    *)
(* and lists of strings; a value is [type, val] with type "str" (val is    *)
(* the one-element tuple holding the string) or "list" (val is the list of *)
(* strings).                                                               *)

MaxEntries == 1     \* entries of a section whose values are RichValues
MaxLabels == 2      \* labels of one of the RichValues

LoopSpellings == { str_loop, <<" ","L","o","o","p">> }
ArchiveSpellings == { <<"A","R","C","H","I","V","E","\t">> }
BogusSpellings == { <<"l","o","o","p","s">> }
Spellings == LoopSpellings \cup ArchiveSpellings \cup BogusSpellings

\* the declarations the module docstring and the specification quote:
\* "loop, archive", "archive" and the empty one
QuotedLabelLists == { <<str_loop, <<" ">> \o str_archive>>, <<str_archive>>, <<>> }

LabelLists == UNION { [1..n -> Spellings] : n \in 0..MaxLabels } \cup QuotedLabelLists

RECURSIVE join(_, _)
join(lst, sep) ==
    IF Len(lst) = 0 THEN <<>>
    ELSE IF Len(lst) = 1 THEN lst[1]
    ELSE lst[1] \o <<sep>> \o join(Tail(lst), sep)

Str(chars) == [type |-> "str", val |-> <<chars>>]
List(items) == [type |-> "list", val |-> items]

\* every declaration of at most MaxLabels labels, written either way
RichValues == { Str(join(ls, ",")) : ls \in LabelLists } \cup { List(ls) : ls \in LabelLists }

\* the declarations of the module docstring's example
PlainValues == { Str(str_loop), Str(join(<<str_loop, str_archive>>, ",")), Str(<<>>) }

\* the keys SpecBind declares: the first, the middle and the last of the
\* registry, and one that is not in the registry
UnknownKeys == { "cpu_freq" }
ConfigKeys == { "cpu_load", "cpu_temp", "disk_avail" } \cup UnknownKeys

Sections(keys, values, most) ==
    UNION { [D -> values] : D \in { D \in SUBSET keys : Cardinality(D) <= most } }

ConfigDicts(sections) ==
    { [k \in {} |-> 0] } \cup { [k \in {"VitalStats"} |-> sect] : sect \in sections }

NoEvent == [type |-> "none", packet |-> <<>>]

Unconfigured(dicts) ==
    /\ config_dict \in dicts
    /\ phase = "Unconfigured"
    /\ loop_stats = <<>>
    /\ archive_stats = <<>>
    /\ bound = {}
    /\ pc = "idle"
    /\ event = NoEvent
    /\ packet = <<>>
    /\ stats = <<>>
    /\ idx = 0
    /\ log = <<>>
    /\ raised = FALSE

\* sections that also hold a key the registry does not know
WithUnknown(sections) ==
    { [k \in DOMAIN sect \cup {u} |-> IF k = u THEN v ELSE sect[k]] :
        sect \in sections, u \in UnknownKeys, v \in PlainValues }

Init == Unconfigured(ConfigDicts(
            Sections(StatNames, PlainValues, Len(STATS))
                \cup WithUnknown(Sections(StatNames, PlainValues, MaxEntries))))

InitBind == Unconfigured(ConfigDicts(Sections(ConfigKeys, RichValues, MaxEntries)))

----------------------------------------------------------------------------
(* VitalStatsSvc.__init__ *)

\* config_dict.get('VitalStats', {})
svc_sect(dict) ==
    IF "VitalStats" \in DOMAIN dict THEN dict["VitalStats"] ELSE [k \in {} |-> 0]

\* the bindings of one obs_type: the provided ones, split at commas when
\* they are one string, each stripped and lower-cased; else the default
bindings(sect, obs_type) ==
    IF obs_type \in DOMAIN sect
    THEN LET given == sect[obs_type]
             items == IF given.type = "str" THEN split(given.val[1], ",") ELSE given.val
         IN  [i \in 1..Len(items) |-> lower(strip(items[i]))]
    ELSE DEF_BINDINGS

IsLoop(sect, obs_type) == InList(str_loop, bindings(sect, obs_type))
IsArchive(sect, obs_type) == InList(str_archive, bindings(sect, obs_type))

\* mutant of loop_list: the loop runs over the section's keys as well
loop_list_any_key(sect) ==
    SelectSeq(StatsKeys \o <<"cpu_freq">>, LAMBDA o : IsLoop(sect, o))

\* mutant of archive_list: obs_types are prepended, not appended
archive_list_prepend(sect) ==
    LET l == SelectSeq(StatsKeys, LAMBDA o : IsArchive(sect, o))
    IN  [i \in 1..Len(l) |-> l[Len(l) + 1 - i]]

\* the for loop over STATS: appends in registry order
loop_list(sect) == SelectSeq(StatsKeys, LAMBDA o : IsLoop(sect, o))
archive_list(sect) == SelectSeq(StatsKeys, LAMBDA o : IsArchive(sect, o))

\* mutant of bind_calls: both events are bound whatever the lists hold
bind_calls_always(loops, archives) == {"NEW_LOOP_PACKET", "NEW_ARCHIVE_RECORD"}

\* the bind calls: none when both lists are empty, else one per non-empty list
bind_calls(loops, archives) ==
    IF Len(loops) <= 0 /\ Len(archives) <= 0 THEN {}
    ELSE (IF Len(loops) > 0 THEN {"NEW_LOOP_PACKET"} ELSE {})
         \cup (IF Len(archives) > 0 THEN {"NEW_ARCHIVE_RECORD"} ELSE {})

VitalStatsSvc_init ==
    /\ phase = "Unconfigured"
    /\ LET sect == svc_sect(config_dict)
           loops == loop_list(sect)
           archives == archive_list(sect)
       IN  /\ loop_stats' = loops
           /\ archive_stats' = archives
           /\ bound' = bind_calls(loop_stats', archive_stats')
    /\ phase' = "Active"
    /\ UNCHANGED <<config_dict, evtVars>>

----------------------------------------------------------------------------
(* VitalStatsSvc.shutDown *)

\* mutant of shutDown: only loop_stats is set to the empty list
shutDown_loop_only ==
    /\ phase \in {"Active", "Stopped"}
    /\ pc = "idle"
    /\ loop_stats' = <<>>
    /\ phase' = "Stopped"
    /\ UNCHANGED <<config_dict, archive_stats, bound, evtVars>>

shutDown ==
    /\ phase \in {"Active", "Stopped"}
    /\ pc = "idle"
    /\ loop_stats' = <<>>
    /\ archive_stats' = <<>>
    /\ phase' = "Stopped"
    /\ UNCHANGED <<config_dict, bound, evtVars>>

----------------------------------------------------------------------------
(* Records and events.  A record is a dict: a function from its keys.      *)

StaleValue == Num(1)    \* a value some record already holds under a stat's name

BaseRecord(usUnits) ==
    [k \in {"usUnits", "outTemp"} |-> IF k = "usUnits" THEN Num(usUnits) ELSE Num(20)]

Put(d, key, val) == [k \in DOMAIN d \cup {key} |-> IF k = key THEN val ELSE d[k]]

WithStale(d) == [k \in DOMAIN d \cup StatNames |-> IF k \in StatNames THEN StaleValue ELSE d[k]]

Records == { BaseRecord(u) : u \in UnitSystems } \cup { WithStale(BaseRecord(u)) : u \in UnitSystems }

EventTypes == {"NEW_LOOP_PACKET", "NEW_ARCHIVE_RECORD"}

Call(op, obs_type, val) == [op |-> op, obs |-> obs_type, val |-> val]

\* the engine hands an event's record to its handler, which calls
\* augment_packet(record, lst); the for loop is left at once when lst is empty
Handle(type, rec, lst) ==
    /\ event' = [type |-> type, packet |-> rec]
    /\ packet' = rec
    /\ stats' = lst
    /\ idx' = 0
    /\ log' = <<>>
    /\ raised' = FALSE
    /\ pc' = IF Len(lst) = 0 THEN "idle" ELSE "augment"
    /\ UNCHANGED svcVars

\* mutant of new_loop_packet: it passes the archive list
new_loop_packet_archive ==
    /\ phase # "Unconfigured"
    /\ pc = "idle"
    /\ "NEW_LOOP_PACKET" \in bound
    /\ \E rec \in Records : Handle("NEW_LOOP_PACKET", rec, archive_stats)

new_loop_packet ==
    /\ phase # "Unconfigured"
    /\ pc = "idle"
    /\ "NEW_LOOP_PACKET" \in bound
    /\ \E rec \in Records : Handle("NEW_LOOP_PACKET", rec, loop_stats)

new_archive_record ==
    /\ phase # "Unconfigured"
    /\ pc = "idle"
    /\ "NEW_ARCHIVE_RECORD" \in bound
    /\ \E rec \in Records : Handle("NEW_ARCHIVE_RECORD", rec, archive_stats)

\* an event of a type the service never bound to: no handler of it runs
unbound_event ==
    /\ phase # "Unconfigured"
    /\ pc = "idle"
    /\ \E type \in EventTypes \ bound : \E rec \in Records : Handle(type, rec, <<>>)

\* mutant of insert: the value is stored whether it is None or not
insert_always(pkt, obs_type, val) == Put(pkt, obs_type, val)

\* "if pkt_vt[0] is not None: packet[obs_type] = pkt_vt[0]"
insert(pkt, obs_type, val) == IF val # None THEN Put(pkt, obs_type, val) ELSE pkt

\* the calls of one iteration that got a value back from get_stat
Calls(obs_type, val) ==
    <<Call("get_stat", obs_type, None), Call("convertStd", obs_type, val)>>
        \o (IF val # None THEN <<Call("insert", obs_type, val)>> ELSE <<>>)

\* one iteration of augment_packet's for loop
augment_packet ==
    /\ pc = "augment"
    /\ LET obs_type == stats[idx + 1]
       IN  \E r \in get_stat(obs_type) :
             IF r.raises
             THEN \* nothing catches it: it leaves augment_packet and the handler
                  /\ raised' = TRUE
                  /\ pc' = "idle"
                  /\ log' = Append(log, Call("get_stat", obs_type, None))
                  /\ UNCHANGED <<packet, idx>>
             ELSE LET output_vt == [val   |-> r.val,
                                    unit  |-> Algorithm(obs_type).output_unit,
                                    group |-> Algorithm(obs_type).output_group]
                      pkt_vt == convertStd(output_vt, packet["usUnits"][1])
                  IN  /\ packet' = insert(packet, obs_type, pkt_vt.val)
                      /\ log' = log \o Calls(obs_type, pkt_vt.val)
                      /\ idx' = idx + 1
                      /\ pc' = IF idx + 1 = Len(stats) THEN "idle" ELSE "augment"
                      /\ UNCHANGED raised
    /\ UNCHANGED <<svcVars, event, stats>>

----------------------------------------------------------------------------
Next ==
    \/ VitalStatsSvc_init
    \/ new_loop_packet
    \/ new_archive_record
    \/ unbound_event
    \/ augment_packet
    \/ shutDown

Spec == Init /\ [][Next]_vars

NextBind ==
    \/ VitalStatsSvc_init
    \/ shutDown

SpecBind == InitBind /\ [][NextBind]_vars

TypeOK ==
    /\ phase \in {"Unconfigured", "Active", "Stopped"}
    /\ pc \in {"idle", "augment"}
    /\ bound \subseteq EventTypes
    /\ idx \in 0..Len(stats)
    /\ raised \in BOOLEAN

----------------------------------------------------------------------------
(* Properties *)

Elems(lst) == {lst[i] : i \in 1..Len(lst)}

\* the last event's handling is over (it returned, or an exception left it)
Handled == pc = "idle" /\ event.type # "none"

\* the record differs at key k from the record as it arrived
Changed(k) ==
    \/ k \notin DOMAIN packet
    \/ k \notin DOMAIN event.packet
    \/ packet[k] # event.packet[k]

Evaluated(obs_type) == \E j \in 1..Len(log) : log[j].op = "get_stat" /\ log[j].obs = obs_type

\* C1: when the evaluation of one metric of a batch fails, the failure is
\* caught and the metric skipped: once the event is handled, no exception has
\* left the handler and every metric of the batch has been evaluated.
C1_FailureIsSkipped ==
    Handled => /\ ~raised
               /\ \A i \in 1..Len(stats) : Evaluated(stats[i])

\* C2: for every metric augment_packet has processed, the metric's name is a
\* key of the record holding the converted value when that value is present;
\* when it is None the key is there only if the record arrived with it, the
\* value it arrived with is kept, and no insert call was made.
C2_KeyIffPresent ==
    \A j \in 1..Len(log) :
        log[j].op = "convertStd" =>
            LET o == log[j].obs
                v == log[j].val
            IN  IF v # None
                THEN o \in DOMAIN packet /\ packet[o] = v
                ELSE /\ o \in DOMAIN packet <=> o \in DOMAIN event.packet
                     /\ o \in DOMAIN packet => packet[o] = event.packet[o] /\ packet[o] # None
                     /\ ~\E i \in 1..Len(log) : log[i].op = "insert" /\ log[i].obs = o

\* C2 witness: a handled record that arrived with stale values, where one
\* metric converted to None and another to a value
C2_Witness ==
    /\ Handled
    /\ "cpu_temp" \in DOMAIN event.packet
    /\ \E j \in 1..Len(log) : log[j].op = "convertStd" /\ log[j].val = None
    /\ \E j \in 1..Len(log) : log[j].op = "convertStd" /\ log[j].val # None

\* the contexts the configuration declares for a registered metric, read off
\* the docstring's table: "loop", "loop,archive", "" or no entry (archive)
Declares(obs_type, type) ==
    LET sect == svc_sect(config_dict)
    IN  IF obs_type \notin DOMAIN sect THEN type = "NEW_ARCHIVE_RECORD"
        ELSE \/ sect[obs_type] = Str(join(<<str_loop, str_archive>>, ","))
             \/ sect[obs_type] = Str(str_loop) /\ type = "NEW_LOOP_PACKET"

\* C3: handling a record changes or creates only keys that name metrics bound
\* to the record's context; every other key, usUnits and the metrics bound
\* only to the other context included, is as the record arrived.
C3_OnlyBoundKeysChange ==
    event.type # "none" =>
        \A k \in DOMAIN packet \cup DOMAIN event.packet :
            Changed(k) => k \in StatNames /\ Declares(k, event.type)

\* C3 witness: configuration {cpu_idle: "loop"}, a loop packet has gained
\* cpu_idle and none of the other four
C3_Witness ==
    /\ Handled
    /\ svc_sect(config_dict) = [k \in {"cpu_idle"} |-> Str(str_loop)]
    /\ event.type = "NEW_LOOP_PACKET"
    /\ "cpu_idle" \notin DOMAIN event.packet
    /\ DOMAIN packet = DOMAIN event.packet \cup {"cpu_idle"}

\* the labels a declaration was written with: the items of a list, and for
\* a string the labels that were joined with commas to write it
LabelsOfStr == [c \in {join(ls, ",") : ls \in LabelLists} |->
                   CHOOSE ls \in LabelLists : join(ls, ",") = c]
Labels(value) == IF value.type = "str" THEN LabelsOfStr[value.val[1]] ELSE value.val

QuotedLoop == LoopSpellings
QuotedArchive == ArchiveSpellings \cup {str_archive, <<" ">> \o str_archive}

HasLabel(value, spellings) == \E i \in 1..Len(Labels(value)) : Labels(value)[i] \in spellings

\* C4: after construction every registered metric without a configuration
\* entry (the whole section may be absent) is in the archive-bound list and
\* not in the loop-bound list, whatever the other entries are.
C4_DefaultIsArchive ==
    phase = "Active" =>
        \A o \in StatNames \ DOMAIN svc_sect(config_dict) :
            InList(o, archive_stats) /\ ~InList(o, loop_stats)

\* C4 witness: constructed from a section that declares cpu_load "loop" only
\* and says nothing of mem_avail
C4_Witness ==
    /\ phase = "Active"
    /\ DOMAIN svc_sect(config_dict) = {"cpu_load"}
    /\ InList("cpu_load", loop_stats)
    /\ ~InList("cpu_load", archive_stats)
    /\ InList("mem_avail", archive_stats)

\* C5: after construction a registered metric with a configuration entry is
\* loop-bound iff one of the entry's labels is a spelling of "loop" (up to
\* surrounding whitespace and letter case) and archive-bound iff one is a
\* spelling of "archive", whether the labels came as one comma-separated
\* string or as a list.
C5_LabelsDecide ==
    phase = "Active" =>
        \A o \in StatNames \cap DOMAIN svc_sect(config_dict) :
            LET value == svc_sect(config_dict)[o]
            IN  /\ InList(o, loop_stats) <=> HasLabel(value, QuotedLoop)
                /\ InList(o, archive_stats) <=> HasLabel(value, QuotedArchive)

\* C5 witness: constructed with cpu_load = "loop, archive": in both lists
C5_Witness ==
    /\ phase = "Active"
    /\ "cpu_load" \in DOMAIN svc_sect(config_dict)
    /\ svc_sect(config_dict)["cpu_load"] = Str(str_loop \o <<",", " ">> \o str_archive)
    /\ InList("cpu_load", loop_stats)
    /\ InList("cpu_load", archive_stats)

\* every registered metric is declared with the empty string
AllDeclaredEmpty ==
    /\ DOMAIN svc_sect(config_dict) = StatNames
    /\ \A o \in StatNames : svc_sect(config_dict)[o] = Str(<<>>)

\* C6: when construction leaves both lists empty, the service is bound to no
\* event, and no record that arrives afterwards (before or after shutDown) is
\* modified or has a metric evaluated for it.
C6_NoBindingsNoWork ==
    (\/ phase = "Active" /\ Len(loop_stats) = 0 /\ Len(archive_stats) = 0
     \/ phase = "Stopped" /\ AllDeclaredEmpty)
        => /\ bound = {}
           /\ pc = "idle"
           /\ ~raised
           /\ packet = event.packet
           /\ log = <<>>

\* C6 witness: constructed with empty lists, and a record has arrived
C6_Witness ==
    /\ phase = "Active"
    /\ Len(loop_stats) = 0
    /\ Len(archive_stats) = 0
    /\ event.type = "NEW_ARCHIVE_RECORD"

\* a step is one of the lifecycle's transitions and treats the lists as the
\* lifecycle says
C7_Step ==
    /\ <<phase, phase'>> \in { <<"Unconfigured", "Unconfigured">>, <<"Unconfigured", "Active">>,
                               <<"Active", "Active">>, <<"Active", "Stopped">>,
                               <<"Stopped", "Stopped">> }
    /\ phase' = phase => UNCHANGED <<loop_stats, archive_stats>>
    /\ phase' = "Stopped" => loop_stats' = <<>> /\ archive_stats' = <<>>
    /\ phase = "Stopped" => UNCHANGED svcVars
    /\ (phase = "Stopped" /\ evtVars' # evtVars) =>
            /\ event'.type # "none"
            /\ packet' = event'.packet
            /\ log' = <<>>
            /\ pc' = "idle"
            /\ ~raised'

\* C7: the binding state goes Unconfigured -> Active -> Stopped and no other
\* way; the lists are set by construction, changed by no event handler and
\* emptied by shutDown; shutDown again changes nothing; an event delivered
\* after shutDown leaves its record as it arrived and evaluates no metric.
C7_Lifecycle == [][C7_Step]_vars

\* C7 witness: after shutDown a handler the service had bound was run for a
\* record, over the empty list
C7_Witness ==
    /\ phase = "Stopped"
    /\ Handled
    /\ event.type \in bound
    /\ Len(stats) = 0
    /\ packet = event.packet

\* C8: a declaration with a label that is no spelling of "loop" or "archive"
\* is a configuration error: the constructed service is bound to no event.
C8_MalformedIsRejected ==
    (/\ phase = "Active"
     /\ \E o \in StatNames \cap DOMAIN svc_sect(config_dict) :
            HasLabel(svc_sect(config_dict)[o], BogusSpellings))
        => bound = {}

Position(obs_type) == CHOOSE i \in 1..Len(StatsKeys) : StatsKeys[i] = obs_type
InRegistryOrder(lst) ==
    \A i, j \in 1..Len(lst) : i < j => Position(lst[i]) < Position(lst[j])

GetStats == SelectSeq(log, LAMBDA c : c.op = "get_stat")

\* C9: the metrics of a record are evaluated in the order of the binding list,
\* which is registry order; get_stat is called at most once per metric; and
\* each value is converted, and inserted when present, before the next
\* get_stat call.
C9_SequentialInOrder ==
    /\ Elems(stats) \subseteq StatNames
    /\ InRegistryOrder(stats)
    /\ Len(GetStats) <= Len(stats)
    /\ \A i \in 1..Len(GetStats) : GetStats[i].obs = stats[i]
    /\ \A j \in 1..Len(log) :
        /\ log[j].op = "convertStd" =>
                j > 1 /\ log[j-1].op = "get_stat" /\ log[j-1].obs = log[j].obs
        /\ log[j].op = "insert" =>
                j > 1 /\ log[j-1] = Call("convertStd", log[j].obs, log[j].val)
                      /\ packet[log[j].obs] = log[j].val
        /\ (log[j].op = "get_stat" /\ j > 1) =>
                /\ log[j-1].op # "get_stat"
                /\ log[j-1].op = "convertStd" => log[j-1].val = None

\* C9 witness: a record handled to the end with at least three metrics
C9_Witness ==
    /\ Handled
    /\ ~raised
    /\ Len(stats) >= 3
    /\ Len(GetStats) = Len(stats)
    /\ \E j \in 1..Len(log) : log[j].op = "insert"

NoDuplicates(lst) == \A i, j \in 1..Len(lst) : i # j => lst[i] # lst[j]

\* C10: every element of the loop-bound list, of the archive-bound list and of
\* the list a handler iterates is a registry key and occurs once in its list,
\* also when the configuration has keys the registry does not know.
C10_OnlyRegistryKeys ==
    \A lst \in {loop_stats, archive_stats, stats} :
        Elems(lst) \subseteq StatNames /\ NoDuplicates(lst)

\* C10 witness: a configuration with an unknown key declared "loop", and a
\* loop packet handled
C10_Witness ==
    /\ Handled
    /\ event.type = "NEW_LOOP_PACKET"
    /\ Len(stats) > 0
    /\ \E u \in UnknownKeys \cap DOMAIN svc_sect(config_dict) :
            svc_sect(config_dict)[u] = Str(str_loop)

====
